---- MODULE Spec2Model ----
(***************************************************************************)
(* Model of association_measures/measures.py: the measure functions        *)
(* z_score, t_score, mutual_information, dice, log_likelihood,             *)
(* hypergeometric_likelihood, log_ratio and the dispatcher                 *)
(* calculate_measures.                                                     *)
(*                                                                         *)
(* A frame (pandas.DataFrame) is a function from column names to the value *)
(* of that column in one row: every formula of the module is element-wise  *)
(* (the only row-wise step, sum(1), works inside a row), so one row stands *)
(* for each row of a table.                                                *)
(*                                                                         *)
(* Floating-point values are kept exact:                                   *)
(*   [k |-> "nan"]                 NaN                                     *)
(*   [k |-> "inf", s]              s * Inf, s \in {-1, 1}                  *)
(*   [k |-> "num", n, d]           the rational n / d, d > 0, reduced      *)
(*   [k |-> "surd", s, n, d]       s * sqrt(n / d), n, d > 0               *)
(*   [k |-> "log", b, x]           log_b(Prod p^x[p]), b \in {"e", "2", "10"}  *)
(* Rounding of the 64-bit floats is outside the model.                     *)
(***************************************************************************)
EXTENDS Integers, Sequences, FiniteSets, TLC

\* largest observed count of a cell, in the tables handed to a measure function
MaxCount == 2
\* largest observed count of a cell, in the tables handed to calculate_measures
MaxDispatchCount == 1
\* longest measures collection handed to calculate_measures
MaxSel == 2

----------------------------------------------------------------------------
(* Arithmetic helpers *)

Abs(i) == IF i < 0 THEN -i ELSE i

Sgn(i) == IF i > 0 THEN 1 ELSE IF i < 0 THEN -1 ELSE 0

RECURSIVE Gcd(_, _)
Gcd(a, b) == IF b = 0 THEN a ELSE Gcd(b, a % b)

NaN == [k |-> "nan"]

Inf(s) == [k |-> "inf", s |-> s]

\* the rational n / d, d # 0, in lowest terms with a positive denominator
Rat(n, d) ==
  LET g == Gcd(Abs(n), Abs(d))
  IN [k |-> "num", n |-> Sgn(d) * (n \div g), d |-> Abs(d) \div g]

Int2F(i) == Rat(i, 1)

IsNaN(v) == v.k = "nan"

IsInf(v) == v.k = "inf"

IsZero(v) == v.k = "num" /\ v.n = 0

\* primes that can divide a numerator or denominator of a ratio O / E
Primes == {p \in 2..31 : \A q \in 2..(p - 1) : p % q # 0}

\* floor(ln(p) * 10^6) for the primes below 32
LnTab == [p \in {2, 3, 5, 7, 11, 13, 17, 19, 23, 29, 31} |->
            CASE p = 2 -> 693147 [] p = 3 -> 1098612 [] p = 5 -> 1609437
              [] p = 7 -> 1945910 [] p = 11 -> 2397895 [] p = 13 -> 2564949
              [] p = 17 -> 2833213 [] p = 19 -> 2944438 [] p = 23 -> 3135494
              [] p = 29 -> 3367295 [] p = 31 -> 3433987]

\* exponent of the prime p in the positive integer n
RECURSIVE Expo(_, _)
Expo(n, p) == IF n % p = 0 THEN 1 + Expo(n \div p, p) ELSE 0

\* exponent vector of the positive rational n / d
Factor(n, d) == [p \in Primes |-> Expo(n, p) - Expo(d, p)]

RECURSIVE SumOver(_, _)
SumOver(S, f) ==
  IF S = {} THEN 0
  ELSE LET p == CHOOSE q \in S : TRUE IN f[p] + SumOver(S \ {p}, f)

\* sign of Sum x[p] * ln(p): every table entry is within 1 of ln(p) * 10^6,
\* so the scaled sum is within Sum |x[p]| of the true one; 2 when the scaled
\* sum is too close to zero to decide
LogSign(x) ==
  LET s == SumOver(Primes, [p \in Primes |-> x[p] * LnTab[p]])
      b == SumOver(Primes, [p \in Primes |-> Abs(x[p])])
  IN IF \A p \in Primes : x[p] = 0 THEN 0
     ELSE IF s > b THEN 1
     ELSE IF s < -b THEN -1
     ELSE 2

\* sign of a value: 1, -1, 0; 3 for NaN
SignOf(v) ==
  CASE v.k = "nan" -> 3
    [] v.k = "inf" -> v.s
    [] v.k = "num" -> Sgn(v.n)
    [] v.k = "surd" -> v.s
    [] v.k = "log" -> LogSign(v.x)

IsFinite(v) == v.k \in {"num", "surd", "log"}

----------------------------------------------------------------------------
(* IEEE-754 arithmetic of numpy / pandas on the exact values *)

\* a + b
Add(a, b) ==
  CASE IsNaN(a) \/ IsNaN(b) -> NaN
    [] IsInf(a) /\ IsInf(b) -> IF a.s = b.s THEN a ELSE NaN
    [] IsInf(a) /\ ~IsInf(b) -> a
    [] IsInf(b) /\ ~IsInf(a) -> b
    [] a.k = "num" /\ b.k = "num" -> Rat(a.n * b.d + b.n * a.d, a.d * b.d)
    [] a.k = "log" /\ IsZero(b) -> a
    [] IsZero(a) /\ b.k = "log" -> b
    [] a.k = "log" /\ b.k = "log" /\ a.b = b.b ->
         [k |-> "log", b |-> a.b, x |-> [p \in Primes |-> a.x[p] + b.x[p]]]

\* -a
Neg(a) ==
  CASE IsNaN(a) -> NaN
    [] IsInf(a) -> Inf(-a.s)
    [] a.k = "num" -> Rat(-a.n, a.d)
    [] a.k = "surd" -> [a EXCEPT !.s = -a.s]
    [] a.k = "log" -> [a EXCEPT !.x = [p \in Primes |-> -a.x[p]]]

\* a - b
Sub(a, b) == Add(a, Neg(b))

\* a * b; a logarithm is only ever multiplied by an integer
Mul(a, b) ==
  CASE IsNaN(a) \/ IsNaN(b) -> NaN
    [] IsInf(a) /\ IsInf(b) -> Inf(a.s * b.s)
    [] IsInf(a) /\ ~IsInf(b) -> IF SignOf(b) = 0 THEN NaN ELSE Inf(a.s * SignOf(b))
    [] IsInf(b) /\ ~IsInf(a) -> IF SignOf(a) = 0 THEN NaN ELSE Inf(b.s * SignOf(a))
    [] a.k = "num" /\ b.k = "num" -> Rat(a.n * b.n, a.d * b.d)
    [] a.k = "num" /\ a.d = 1 /\ b.k = "log" ->
         [b EXCEPT !.x = [p \in Primes |-> a.n * b.x[p]]]
    [] a.k = "log" /\ b.k = "num" /\ b.d = 1 ->
         [a EXCEPT !.x = [p \in Primes |-> b.n * a.x[p]]]

\* a / b; a zero divisor is +0: 0/0 = NaN, nonzero/0 = +-Inf
Div(a, b) ==
  CASE IsNaN(a) \/ IsNaN(b) -> NaN
    [] IsInf(a) /\ IsInf(b) -> NaN
    [] IsInf(a) /\ ~IsInf(b) -> IF SignOf(b) < 0 THEN Inf(-a.s) ELSE a
    [] IsInf(b) /\ ~IsInf(a) -> Int2F(0)
    [] a.k = "num" /\ b.k = "num" ->
         IF b.n = 0
         THEN IF a.n = 0 THEN NaN ELSE Inf(Sgn(a.n))
         ELSE Rat(a.n * b.d, a.d * b.n)
    [] a.k = "num" /\ b.k = "surd" ->
         IF a.n = 0 THEN Int2F(0)
         ELSE LET q == Rat(a.n * a.n * b.d, a.d * a.d * b.n)
              IN [k |-> "surd", s |-> Sgn(a.n) * b.s, n |-> q.n, d |-> q.d]

\* np.sqrt
Sqrt(a) ==
  CASE IsNaN(a) -> NaN
    [] IsInf(a) -> IF a.s > 0 THEN a ELSE NaN
    [] a.k = "num" ->
         IF a.n < 0 THEN NaN
         ELSE IF a.n = 0 THEN a
         ELSE [k |-> "surd", s |-> 1, n |-> a.n, d |-> a.d]

\* np.log (b = "e"), np.log2, np.log10: log(0) = -Inf, log(negative) = NaN
Log(b, a) ==
  CASE IsNaN(a) -> NaN
    [] IsInf(a) -> IF a.s > 0 THEN a ELSE NaN
    [] a.k = "num" ->
         IF a.n < 0 THEN NaN
         ELSE IF a.n = 0 THEN Inf(-1)
         ELSE [k |-> "log", b |-> b, x |-> Factor(a.n, a.d)]

\* np.sign
Sign(a) == IF IsNaN(a) THEN NaN ELSE Int2F(SignOf(a))

\* Series.replace(0, np.nan)
ReplaceZero(a) == IF IsZero(a) THEN NaN ELSE a

\* a row sum that lets a NaN term through (skipna=False)
RECURSIVE SumPropagateNa(_)
SumPropagateNa(ts) ==
  IF ts = << >> THEN Int2F(0)
  ELSE Add(Head(ts), SumPropagateNa(Tail(ts)))

\* DataFrame.sum(1): the row's sum over the terms that are not NaN
\* (skipna=True), 0 when every term is NaN
RECURSIVE SumSkipNa(_)
SumSkipNa(ts) ==
  IF ts = << >> THEN Int2F(0)
  ELSE IF IsNaN(Head(ts)) THEN SumSkipNa(Tail(ts))
  ELSE Add(Head(ts), SumSkipNa(Tail(ts)))

----------------------------------------------------------------------------
(* Frames and the external collaborators *)

OCols == {"O11", "O12", "O21", "O22"}

ECols == {"E11", "E12", "E21", "E22"}

\* columns a caller's table may hold besides the observed counts
OptCols == ECols \cup {"N"}

\* df[name] = value
SetCol(df, name, value) ==
  [c \in DOMAIN df \cup {name} |-> IF c = name THEN value ELSE df[c]]

\* binomial coefficient of association_measures.binomial
RECURSIVE choose(_, _)
choose(n, k) ==
  IF k < 0 \/ k > n THEN 0
  ELSE IF k = 0 \/ k = n THEN 1
  ELSE choose(n - 1, k - 1) + choose(n - 1, k)

\* expected frequencies under independence, E_ij = R_i * C_j / N
Expected(df) ==
  LET R1 == Add(df["O11"], df["O12"])
      R2 == Add(df["O21"], df["O22"])
      C1 == Add(df["O11"], df["O21"])
      C2 == Add(df["O12"], df["O22"])
      N  == Add(R1, R2)
  IN [c \in ECols \cup {"N"} |->
        CASE c = "E11" -> Div(Mul(R1, C1), N)
          [] c = "E12" -> Div(Mul(R1, C2), N)
          [] c = "E21" -> Div(Mul(R2, C1), N)
          [] c = "E22" -> Div(Mul(R2, C2), N)
          [] c = "N"   -> N]

\* the frequency-table builder of association_measures.frequencies, acting on
\* the table it is handed: adds the columns E11, E12, E21, E22 and N that
\* the table lacks and leaves the columns it has
expected_frequencies(df) ==
  [c \in DOMAIN df \cup ECols \cup {"N"} |->
     IF c \in DOMAIN df THEN df[c] ELSE Expected(df)[c]]

\* a caller's table: the observed counts and the optional columns S, holding
\* the expected frequencies and N as the builder derives them
MakeFrame(o11, o12, o21, o22, S) ==
  LET obs == [c \in OCols |->
                CASE c = "O11" -> Int2F(o11) [] c = "O12" -> Int2F(o12)
                  [] c = "O21" -> Int2F(o21) [] c = "O22" -> Int2F(o22)]
  IN [c \in OCols \cup S |->
        IF c \in OCols THEN obs[c] ELSE Expected(obs)[c]]

\* the tables with observed counts of at most m
Frames(m) ==
  {MakeFrame(o[1], o[2], o[3], o[4], S) :
     o \in (0..m) \X (0..m) \X (0..m) \X (0..m), S \in SUBSET OptCols}

----------------------------------------------------------------------------
(* The measure functions.  Each returns the score of the row, or the       *)
(* KeyError of a column lookup, and tells whether it invoked the builder.  *)

NoVal == [k |-> "none"]

Ok(v, ef) == [err |-> "none", val |-> v, ef |-> ef]

KeyError(ef) == [err |-> "KeyError", val |-> NoVal, ef |-> ef]

\* df.columns.isin(names).all(): every column of df is one of names
ColumnsIsinAll(df, names) == DOMAIN df \subseteq names

\* df = df.copy(); if not (df.columns.isin(names).all()): expected_frequencies(df)
Prepare(df, names) ==
  LET ef == ~ColumnsIsinAll(df, names)
  IN [ef |-> ef, df |-> IF ef THEN expected_frequencies(df) ELSE df]

z_score(df) ==
  LET p == Prepare(df, {"O11", "E11"})
      d == p.df
  IN IF {"O11", "E11"} \subseteq DOMAIN d
     THEN Ok(Div(Sub(d["O11"], d["E11"]), Sqrt(d["E11"])), p.ef)
     ELSE KeyError(p.ef)

\* a t-score that divides by sqrt(E11), as the z-score does
t_score_by_expected(df) ==
  LET p == Prepare(df, {"O11", "E11"})
      d == p.df
  IN IF {"O11", "E11"} \subseteq DOMAIN d
     THEN Ok(Div(Sub(d["O11"], d["E11"]), Sqrt(d["E11"])), p.ef)
     ELSE KeyError(p.ef)

t_score(df) ==
  LET p == Prepare(df, {"O11", "E11"})
      d == p.df
  IN IF {"O11", "E11"} \subseteq DOMAIN d
     THEN Ok(Div(Sub(d["O11"], d["E11"]), Sqrt(d["O11"])), p.ef)
     ELSE KeyError(p.ef)

\* a mutual information without the zero guards: log10(O11 / E11)
mutual_information_unguarded(df) ==
  LET p == Prepare(df, {"O11", "E11"})
      d == p.df
  IN IF {"O11", "E11"} \subseteq DOMAIN d
     THEN Ok(Log("10", Div(d["O11"], d["E11"])), p.ef)
     ELSE KeyError(p.ef)

mutual_information(df) ==
  LET p == Prepare(df, {"O11", "E11"})
      d == p.df
  IN IF {"O11", "E11"} \subseteq DOMAIN d
     THEN LET diff == Div(ReplaceZero(d["O11"]), ReplaceZero(d["E11"]))
          IN Ok(Log("10", ReplaceZero(diff)), p.ef)
     ELSE KeyError(p.ef)

dice(df) ==
  LET p == Prepare(df, {"O11", "E11"})
      d == p.df
  IN IF {"O11", "O12", "O21"} \subseteq DOMAIN d
     THEN Ok(Div(Mul(Int2F(2), d["O11"]),
                 Add(Add(Mul(Int2F(2), d["O11"]), d["O12"]), d["O21"])), p.ef)
     ELSE KeyError(p.ef)

\* a term with the ratio upside down: O_c * np.log(E_c / O_c)
LLTermInverted(o, e) == Mul(o, Log("e", Div(ReplaceZero(e), o)))

\* O_c * np.log(O_c / E_c.replace(0, np.nan))
LLTerm(o, e) == Mul(o, Log("e", Div(o, ReplaceZero(e))))

log_likelihood(df, signed) ==
  LET p == Prepare(df, OCols \cup ECols)
      d == p.df
  IN IF OCols \cup ECols \subseteq DOMAIN d
     THEN LET ii  == LLTerm(d["O11"], d["E11"])
              ij  == LLTerm(d["O12"], d["E12"])
              ji  == LLTerm(d["O21"], d["E21"])
              jj  == LLTerm(d["O22"], d["E22"])
              res == Mul(Int2F(2), SumSkipNa(<<ii, ij, ji, jj>>))
          IN Ok(IF signed THEN Mul(Sign(Sub(d["O11"], d["E11"])), res) ELSE res,
                p.ef)
     ELSE KeyError(p.ef)

hypergeometric_likelihood(df) ==
  LET p == Prepare(df, {"N"} \cup OCols \cup ECols)
      d == p.df
  IN IF {"N"} \cup OCols \subseteq DOMAIN d
     THEN Ok(Div(Int2F(choose(d["O11"].n + d["O21"].n, d["O11"].n) *
                       choose(d["O12"].n + d["O22"].n, d["O12"].n)),
                 Int2F(choose(d["N"].n, d["O11"].n + d["O12"].n))), p.ef)
     ELSE KeyError(p.ef)

log_ratio(df) ==
  LET p == Prepare(df, {"N"} \cup OCols \cup ECols)
      d == p.df
  IN IF OCols \subseteq DOMAIN d
     THEN LET C1    == Add(d["O11"], d["O21"])
              C2    == Add(d["O12"], d["O22"])
              ratio == Div(Div(d["O11"], C1), Div(d["O12"], C2))
          IN Ok(Log("2", ratio), p.ef)
     ELSE KeyError(p.ef)

----------------------------------------------------------------------------
(* The dispatcher *)

\* names of the measure functions of the module
MeasureNames == {"z_score", "t_score", "dice", "log_likelihood",
                 "mutual_information", "log_ratio",
                 "hypergeometric_likelihood"}

\* a registry with the commented-out entry enabled
ams_all_with_hypergeometric ==
  <<"z_score", "t_score", "dice", "log_likelihood", "mutual_information",
    "log_ratio", "hypergeometric_likelihood">>

\* ams_all: the registry, in the order of its keys
ams_all == <<"z_score", "t_score", "dice", "log_likelihood",
             "mutual_information", "log_ratio">>

\* measure(df_loc) for the measure function called name
CallMeasure(name, df) ==
  CASE name = "z_score" -> z_score(df)
    [] name = "t_score" -> t_score(df)
    [] name = "dice" -> dice(df)
    [] name = "log_likelihood" -> log_likelihood(df, TRUE)
    [] name = "mutual_information" -> mutual_information(df)
    [] name = "log_ratio" -> log_ratio(df)
    [] name = "hypergeometric_likelihood" -> hypergeometric_likelihood(df)

\* an element of a measures collection: a name string or a measure function
Str(name) == [t |-> "str", v |-> name]

Fn(name) == [t |-> "fn", v |-> name]

Range(q) == {q[i] : i \in DOMAIN q}

RECURSIVE FilterSeq(_, _)
FilterSeq(q, S) ==
  IF q = << >> THEN << >>
  ELSE IF Head(q) \in S THEN <<Head(q)>> \o FilterSeq(Tail(q), S)
  ELSE FilterSeq(Tail(q), S)

\* a selection that looks every name up, the KeyError of ams_all[k] for an
\* unregistered one
SelectMeasuresStrict(isNone, items) ==
  IF ~isNone
  THEN IF items = << >>
       THEN [err |-> "IndexError", ms |-> << >>]
       ELSE IF items[1].t = "str"
       THEN IF \A i \in DOMAIN items : items[i] \in {Str(k) : k \in Range(ams_all)}
            THEN [err |-> "none", ms |-> [i \in DOMAIN items |-> Fn(items[i].v)]]
            ELSE [err |-> "KeyError", ms |-> << >>]
       ELSE [err |-> "none", ms |-> items]
  ELSE [err |-> "none", ms |-> [i \in DOMAIN ams_all |-> Fn(ams_all[i])]]

\* a selection that tests the collection for emptiness before measures[0]
SelectMeasuresLenient(isNone, items) ==
  IF ~isNone
  THEN IF items = << >>
       THEN [err |-> "none", ms |-> << >>]
       ELSE IF items[1].t = "str"
       THEN LET known == FilterSeq(items, {Str(k) : k \in Range(ams_all)})
            IN [err |-> "none", ms |-> [i \in DOMAIN known |-> Fn(known[i].v)]]
       ELSE [err |-> "none", ms |-> items]
  ELSE [err |-> "none", ms |-> [i \in DOMAIN ams_all |-> Fn(ams_all[i])]]

\* the "select measures" step: the functions to run, or the IndexError of
\* measures[0] on an empty collection
SelectMeasures(isNone, items) ==
  IF ~isNone
  THEN IF items = << >>
       THEN [err |-> "IndexError", ms |-> << >>]
       ELSE IF items[1].t = "str"
       THEN LET known == FilterSeq(items, {Str(k) : k \in Range(ams_all)})
            IN [err |-> "none", ms |-> [i \in DOMAIN known |-> Fn(known[i].v)]]
       ELSE [err |-> "none", ms |-> items]
  ELSE [err |-> "none", ms |-> [i \in DOMAIN ams_all |-> Fn(ams_all[i])]]

\* the "check for expected frequencies" guard on the caller's table
NeedsExpected(df) == ~ColumnsIsinAll(df, ECols)

Ev(e, by) == [e |-> e, by |-> by]

\* the value of an expression evaluated once: S is the singleton of it
The(S) == CHOOSE x \in S : TRUE

\* one turn of the "calculate measures" loop, df[measure.__name__] =
\* measure(df_loc).  st.df is the caller's table, st.loc the table df_loc,
\* st.alias whether they are one object
RunMeasure(st, m) ==
  IF m.t = "str"
  THEN [st EXCEPT !.err = "TypeError"]
  ELSE The({LET lg == st.log \o <<Ev("call", m.v)>> \o
                      (IF r.ef THEN <<Ev("ef", m.v)>> ELSE << >>)
                d  == SetCol(st.df, m.v, r.val)
            IN IF r.err # "none"
               THEN [st EXCEPT !.err = r.err, !.log = lg]
               ELSE [st EXCEPT !.df = d,
                               !.loc = IF st.alias THEN d ELSE st.loc,
                               !.log = lg,
                               !.written = st.written \o <<m.v>>] :
            r \in {CallMeasure(m.v, st.loc)}})

\* the "calculate measures" loop; an exception ends it
RECURSIVE RunMeasures(_, _)
RunMeasures(st, ms) ==
  IF ms = << >> \/ st.err # "none" THEN st
  ELSE The({RunMeasures(s, Tail(ms)) : s \in {RunMeasure(st, Head(ms))}})

\* the object calculate_measures returns: the caller's table or the copy
ReturnedObject(inplace) == "input"

calculate_measures(df, isNone, items, inplace) ==
  LET ensure == NeedsExpected(df)
      loc    == IF ensure THEN expected_frequencies(df) ELSE df
      st0    == [df      |-> IF inplace THEN loc ELSE df,
                 loc     |-> loc,
                 alias   |-> inplace,
                 err     |-> "none",
                 log     |-> IF ensure THEN <<Ev("ef", "calculate_measures")>>
                             ELSE << >>,
                 written |-> << >>]
      sel    == SelectMeasures(isNone, items)
  IN The({[df      |-> st.df,
           loc     |-> st.loc,
           err     |-> st.err,
           log     |-> st.log,
           written |-> st.written,
           obj     |-> IF st.err = "none" THEN ReturnedObject(inplace) ELSE "none"] :
          st \in {IF sel.err # "none" THEN [st0 EXCEPT !.err = sel.err]
                  ELSE The({RunMeasures(s, sel.ms) : s \in {st0}})}})

----------------------------------------------------------------------------
(* The state machines: a caller builds a table and makes one call *)

VARIABLES
  df0,      \* the caller's table as it was handed to the call
  df,       \* the caller's table
  pc,       \* "ready" before the call, "returned" or "raised" after it
  op,       \* the call made: function and arguments
  res,      \* the score a measure function returned
  out,      \* the table calculate_measures returned
  retObj,   \* the object returned: "input", "copy", or "none"
  err,      \* the exception raised, "none" if none
  log,      \* builder invocations and measure calls, in order
  written   \* score columns assigned by the call, in order

vars == <<df0, df, pc, op, res, out, retObj, err, log, written>>

NoFrame == [c \in {} |-> NoVal]

NoOp == [fn |-> "none", isNone |-> TRUE, items |-> << >>, inplace |-> TRUE,
         signed |-> TRUE]

\* elements a measures collection is built from
Items == {Str("z_score"), Str("not_a_real_measure"),
          Fn("hypergeometric_likelihood")}

RECURSIVE SeqsUpTo(_, _)
SeqsUpTo(S, n) ==
  IF n = 0 THEN {<< >>}
  ELSE LET shorter == SeqsUpTo(S, n - 1)
       IN shorter \cup {Append(q, x) : q \in {r \in shorter : Len(r) = n - 1},
                                       x \in S}

MeasureArgs == SeqsUpTo(Items, MaxSel)

Start(frames) ==
  /\ df0 \in frames
  /\ df = df0
  /\ pc = "ready"
  /\ op = NoOp
  /\ res = NoVal
  /\ out = NoFrame
  /\ retObj = "none"
  /\ err = "none"
  /\ log = << >>
  /\ written = << >>

Init == Start(Frames(MaxCount))

InitDispatch == Start(Frames(MaxDispatchCount))

\* a direct call of a measure function: it works on a private copy
Direct(name, signed, r) ==
  /\ pc = "ready"
  /\ op' = [NoOp EXCEPT !.fn = name, !.signed = signed]
  /\ res' = r.val
  /\ err' = r.err
  /\ pc' = IF r.err = "none" THEN "returned" ELSE "raised"
  /\ log' = <<Ev("call", name)>> \o (IF r.ef THEN <<Ev("ef", name)>> ELSE << >>)
  /\ UNCHANGED <<df0, df, out, retObj, written>>

ZScore == Direct("z_score", TRUE, z_score(df))

TScore == Direct("t_score", TRUE, t_score(df))

MutualInformation == Direct("mutual_information", TRUE, mutual_information(df))

Dice == Direct("dice", TRUE, dice(df))

LogLikelihood == \E signed \in BOOLEAN :
  Direct("log_likelihood", signed, log_likelihood(df, signed))

HypergeometricLikelihood ==
  Direct("hypergeometric_likelihood", TRUE, hypergeometric_likelihood(df))

LogRatio == Direct("log_ratio", TRUE, log_ratio(df))

CalculateMeasures ==
  /\ pc = "ready"
  /\ \E isNone \in BOOLEAN, inplace \in BOOLEAN :
     \E items \in (IF isNone THEN {<< >>} ELSE MeasureArgs) :
     \E r \in {calculate_measures(df, isNone, items, inplace)} :
       /\ op' = [fn |-> "calculate_measures", isNone |-> isNone,
                 items |-> items, inplace |-> inplace, signed |-> TRUE]
       /\ df' = r.df
       /\ out' = IF r.err = "none" THEN r.df ELSE NoFrame
       /\ retObj' = r.obj
       /\ err' = r.err
       /\ pc' = IF r.err = "none" THEN "returned" ELSE "raised"
       /\ log' = r.log
       /\ written' = r.written
       /\ UNCHANGED <<df0, res>>

Next ==
  \/ ZScore
  \/ TScore
  \/ MutualInformation
  \/ Dice
  \/ LogLikelihood
  \/ HypergeometricLikelihood
  \/ LogRatio

NextDispatch == CalculateMeasures

\* a caller calls one measure function on a table
Spec == Init /\ [][Next]_vars

\* a caller calls calculate_measures on a table
SpecDispatch == InitDispatch /\ [][NextDispatch]_vars

----------------------------------------------------------------------------
(* Properties of calculate_measures, stated of SpecDispatch *)

Dispatched == op.fn = "calculate_measures"

LogEvents == {log[i] : i \in DOMAIN log}

\* C1: the inplace flag decides the identity of the returned table: the
\* caller's object with inplace=true, another object (a copy) with
\* inplace=false.
C1_InplaceDecidesIdentity ==
  (Dispatched /\ pc = "returned") =>
    /\ op.inplace => retObj = "input"
    /\ ~op.inplace => retObj # "input"

\* C2: a call without a measures argument assigns exactly the six default
\* score columns, on every table with the observed counts, and leaves no
\* hypergeometric_likelihood column in the returned table.
C2_DefaultSixColumns ==
  (Dispatched /\ op.isNone) =>
    /\ pc = "returned"
    /\ written = <<"z_score", "t_score", "dice", "log_likelihood",
                   "mutual_information", "log_ratio">>
    /\ DOMAIN out \cap MeasureNames =
         {"z_score", "t_score", "dice", "log_likelihood",
          "mutual_information", "log_ratio"}
    /\ "hypergeometric_likelihood" \notin DOMAIN out

\* a default call has returned for a table that came without any E* column
C2_Witness ==
  /\ Dispatched /\ op.isNone /\ pc = "returned"
  /\ DOMAIN df0 = OCols
  /\ Len(written) = 6

\* the measures argument is a non-empty list of strings, none a registered name
AllUnknown ==
  /\ Dispatched /\ ~op.isNone /\ op.items # << >>
  /\ \A i \in DOMAIN op.items :
       op.items[i].t = "str" /\ op.items[i].v \notin MeasureNames

\* C3, as claimed: a non-empty list of unregistered names returns the table
\* unchanged, with no column added, and does not fail.
C3_UnknownNamesLeaveTableUnchanged ==
  AllUnknown => (pc = "returned" /\ out = df0 /\ df = df0)

\* C3, amended: a non-empty list of unregistered names does not fail and
\* assigns no score column; the columns the table had keep their values; the
\* only columns added are the E11, E12, E21, E22 and N the table lacked, which
\* the expected-frequency step adds (to the caller's table with inplace=true)
\* before the measures are selected.
C3_UnknownNamesAddNoScore ==
  AllUnknown =>
    /\ pc = "returned"
    /\ written = << >>
    /\ DOMAIN out \cap MeasureNames = {}
    /\ \A c \in DOMAIN df0 : c \in DOMAIN out /\ out[c] = df0[c]
    /\ DOMAIN out \ DOMAIN df0 \subseteq ECols \cup {"N"}
    /\ op.inplace => (ECols \subseteq DOMAIN out /\ df = out)
    /\ ~op.inplace => df = df0

\* an all-unknown list on a table with only the observed counts, inplace=true:
\* the call returned and the table has gained E11
C3_Witness ==
  /\ AllUnknown /\ op.inplace /\ pc = "returned"
  /\ DOMAIN df0 = OCols
  /\ "E11" \in DOMAIN out

\* C5: in one call the builder is invoked once, by the dispatcher's ensure
\* step before the first measure is dispatched, and by no measure after it.
C5_BuilderInvokedOnce ==
  Dispatched =>
    \A i \in DOMAIN log :
      log[i].e = "ef" => (log[i].by = "calculate_measures" /\ i = 1)

\* C10: with measures=[] the call fails with the IndexError of measures[0],
\* after the expected-frequency step has run: no score column is assigned and,
\* with inplace=true, the caller's table holds the E* columns.
C10_EmptyMeasuresFailAfterEnsure ==
  (Dispatched /\ ~op.isNone /\ op.items = << >>) =>
    /\ pc = "raised" /\ err = "IndexError"
    /\ log = <<Ev("ef", "calculate_measures")>>
    /\ written = << >>
    /\ DOMAIN df \cap MeasureNames = {}
    /\ op.inplace => (ECols \subseteq DOMAIN df /\ df = expected_frequencies(df0))
    /\ ~op.inplace => df = df0

\* measures=[] with inplace=true on a table without E11: the call raised and
\* the caller's table has E11
C10_Witness ==
  /\ Dispatched /\ ~op.isNone /\ op.items = << >> /\ op.inplace
  /\ pc = "raised"
  /\ "E11" \notin DOMAIN df0
  /\ "E11" \in DOMAIN df

----------------------------------------------------------------------------
(* Properties of the measure functions, stated of Spec *)

\* the expected-frequency columns the formula of a measure reads
EReads(name) ==
  CASE name \in {"z_score", "t_score", "mutual_information"} -> {"E11"}
    [] name = "log_likelihood" -> ECols
    [] OTHER -> {}

\* the value of column c the formula sees: the table's, or the builder's
Seen(c) == expected_frequencies(df0)[c]

Positive(v) == v.k = "num" /\ v.n > 0

\* C4: a measure whose formula reads expected frequencies, called on a table
\* that lacks an E* column it reads, invokes the builder on its copy before
\* the formula reads the column, so the call returns a score.
C4_MeasureTriggersBuilder ==
  (op.fn \in {"z_score", "t_score", "mutual_information", "log_likelihood"}
     /\ ~(EReads(op.fn) \subseteq DOMAIN df0)) =>
    (Ev("ef", op.fn) \in LogEvents /\ pc = "returned")

\* C6: mutual_information is NaN for every row with O11 = 0 or E11 = 0, and
\* is -Inf for no row.
C6_MutualInformationNaN ==
  (op.fn = "mutual_information" /\ pc = "returned") =>
    /\ (IsZero(Seen("O11")) \/ IsZero(Seen("E11"))) => IsNaN(res)
    /\ res # Inf(-1)

\* mutual_information returned NaN for a row with O11 = 0 and E11 > 0
C6_Witness ==
  /\ op.fn = "mutual_information" /\ pc = "returned"
  /\ IsZero(Seen("O11")) /\ Positive(Seen("E11"))
  /\ IsNaN(res)

\* C7, as claimed: t_score is NaN for every row with O11 = 0, whatever E11.
C7_TScoreNaNWhenO11Zero ==
  (op.fn = "t_score" /\ pc = "returned" /\ IsZero(Seen("O11"))) => IsNaN(res)

\* C7, amended: for a row with O11 = 0, t_score is -Inf when E11 > 0
\* ((0 - E11) / sqrt(0) is negative / 0) and NaN only when E11 is 0 or NaN.
C7_TScoreAtO11Zero ==
  (op.fn = "t_score" /\ pc = "returned" /\ IsZero(Seen("O11"))) =>
    /\ Positive(Seen("E11")) => res = Inf(-1)
    /\ (IsZero(Seen("E11")) \/ IsNaN(Seen("E11"))) => IsNaN(res)
    /\ Positive(Seen("E11")) \/ IsZero(Seen("E11")) \/ IsNaN(Seen("E11"))

\* t_score returned -Inf for a row with O11 = 0 and E11 > 0
C7_Witness ==
  /\ op.fn = "t_score" /\ pc = "returned"
  /\ IsZero(Seen("O11")) /\ Positive(Seen("E11"))
  /\ res = Inf(-1)

Cells == {<<"O11", "E11">>, <<"O12", "E12">>, <<"O21", "E21">>, <<"O22", "E22">>}

\* the term of a cell under the convention O * ln(O / E) = 0 for O = 0
ConventionTerm(o, e) == IF IsZero(o) THEN Int2F(0) ELSE LLTerm(o, e)

\* C8: in log_likelihood a cell with O_c = 0 contributes 0 to the sum,
\* whatever E_c: the row's statistic 2 * sum equals the one computed with 0 in
\* place of the term of every such cell, and is neither NaN nor infinite.
C8_ZeroCountContributesZero ==
  (op.fn = "log_likelihood" /\ ~op.signed /\ pc = "returned") =>
    /\ res = Mul(Int2F(2),
                 Add(Add(ConventionTerm(Seen("O11"), Seen("E11")),
                         ConventionTerm(Seen("O12"), Seen("E12"))),
                     Add(ConventionTerm(Seen("O21"), Seen("E21")),
                         ConventionTerm(Seen("O22"), Seen("E22")))))
    /\ IsFinite(res)

\* log_likelihood returned a nonzero finite statistic for a row with a cell
\* O_c = 0, E_c > 0, whose term 0 * ln(0) is NaN
C8_Witness ==
  /\ op.fn = "log_likelihood" /\ ~op.signed /\ pc = "returned"
  /\ \E c \in Cells :
       /\ IsZero(Seen(c[1])) /\ Positive(Seen(c[2]))
       /\ IsNaN(LLTerm(Seen(c[1]), Seen(c[2])))
  /\ IsFinite(res) /\ SignOf(res) # 0

\* C9: the unsigned log_likelihood is >= 0 for every row; the signed one is
\* positive where O11 - E11 > 0 and negative where O11 - E11 < 0.
C9_LogLikelihoodSign ==
  (op.fn = "log_likelihood" /\ pc = "returned") =>
    /\ ~op.signed => SignOf(res) \in {0, 1}
    /\ (op.signed /\ SignOf(Sub(Seen("O11"), Seen("E11"))) = 1) => SignOf(res) = 1
    /\ (op.signed /\ SignOf(Sub(Seen("O11"), Seen("E11"))) = -1) => SignOf(res) = -1

\* the signed log_likelihood returned a negative score for a row with
\* O11 > 0 and O11 < E11
C9_Witness ==
  /\ op.fn = "log_likelihood" /\ op.signed /\ pc = "returned"
  /\ Positive(Seen("O11"))
  /\ SignOf(Sub(Seen("O11"), Seen("E11"))) = -1
  /\ SignOf(res) = -1

====
